---- MODULE Spec2Model ----
(***************************************************************************)
(* Model of scraper_app.py: the cached extraction pipeline scrape_website, *)
(* the layout routing it performs on the URL, the per-block extractors for *)
(* the two recognised layouts, and the scrape button handler that stores   *)
(* the result in the Streamlit session state.                              *)
(*                                                                         *)
(* Strings are modelled as sequences of tokens, so that substring tests    *)
(* (`in`), replace() and float() are computed rather than assumed.         *)
(* An optional DOM element is a sequence of length 0 (find() returned      *)
(* None) or 1 (the element).                                               *)
(***************************************************************************)
EXTENDS Integers, Sequences, FiniteSets, TLC

VARIABLES cache, now, session, last, prev, nreq, nticks, pc, inp, out

vars == <<cache, now, session, last, prev, nreq, nticks, pc, inp, out>>

----------------------------------------------------------------------------
(* Bounds of the model *)

MaxItems == 2
MaxBlocks == 3
MaxUrlLen == 4
MaxPriceLen == 2
MaxRequests == 2
MaxTicks == 3

(* Program constants *)

TTL == 3600

----------------------------------------------------------------------------
(* Generic helpers *)

SeqsUpTo(S, n) == UNION {[1..k -> S] : k \in 0..n}

None == <<>>
Some(x) == <<x>>

\* Python's `pat in s` on strings, on token sequences.
Contains(s, pat) ==
    \E i \in 0..(Len(s) - Len(pat)) : SubSeq(s, i + 1, i + Len(pat)) = pat

\* Python's s.replace(sym, '') for a one-token symbol.
Replace(s, sym) == SelectSeq(s, LAMBDA t : t # sym)

\* Python's seq[:n] for n >= 0.
Slice(s, n) == SubSeq(s, 1, IF n < Len(s) THEN n ELSE Len(s))

----------------------------------------------------------------------------
(* Layout routing: the if / elif / else chain on the URL *)

UrlTokens == {"books", "quotes", ".toscrape.com", "x"}
UrlStrings == SeqsUpTo(UrlTokens, MaxUrlLen)

BooksPattern == <<"books", ".toscrape.com">>
QuotesPattern == <<"quotes", ".toscrape.com">>

routeQuotesFirst(url) ==
    IF Contains(url, QuotesPattern) THEN "Quotes"
    ELSE IF Contains(url, BooksPattern) THEN "Books"
    ELSE "Unsupported"

route(url) ==
    IF Contains(url, BooksPattern) THEN "Books"
    ELSE IF Contains(url, QuotesPattern) THEN "Quotes"
    ELSE "Unsupported"

----------------------------------------------------------------------------
(* Field parsing used by the Books extractor *)

Digits == {"1", "2"}
Pound == "GBP"   \* the pound sign
PriceTokens == {Pound, "$", "N/A"} \cup Digits
PriceTexts == SeqsUpTo(PriceTokens, MaxPriceLen)

DigitVal(t) == IF t = "1" THEN 1 ELSE 2

RECURSIVE DecimalValue(_)
DecimalValue(s) ==
    IF s = <<>> THEN 0
    ELSE 10 * DecimalValue(SubSeq(s, 1, Len(s) - 1)) + DigitVal(s[Len(s)])

\* float(text): a value, or None when float() raises ValueError.
parse_float(text) ==
    IF text # <<>> /\ \A i \in 1..Len(text) : text[i] \in Digits
    THEN Some(DecimalValue(text))
    ELSE None

\* float(price_text.replace(pound sign, '').replace('$', ''))
parse_price(price_text) == parse_float(Replace(Replace(price_text, Pound), "$"))

RatingLabels == {"One", "Two", "Three", "Four", "Five"}

\* rating_map.get(label, 0)
rating_map_get(label) ==
    CASE label = "One" -> 1
      [] label = "Two" -> 2
      [] label = "Three" -> 3
      [] label = "Four" -> 4
      [] label = "Five" -> 5
      [] OTHER -> 0

----------------------------------------------------------------------------
(* Content blocks.  A block is one node returned by find_all: an           *)
(* article.product_pod (kind "book") or a div.quote (kind "quote").  Each  *)
(* field is what the extractor's find() calls see inside the block.        *)
(*   title  : None (no h3/a), Some(None) (a without title attribute),      *)
(*            Some(Some(t))                                                *)
(*   price  : None (no p.price_color) or Some(text)                        *)
(*   rating : None (no p.star-rating) or Some(list of class tokens)        *)
(*   avail  : None (no p.instock.availability) or Some(text)               *)
(*   text, author : None or Some(string) of the quote elements             *)
(***************************************************************************)

Titles == {"A", "B"}
TitleFields == {None, Some(None)} \cup {Some(Some(t)) : t \in Titles}
PriceFields == {None} \cup {Some(p) : p \in PriceTexts}
RatingClasses ==
    {<<"star-rating">>} \cup {<<"star-rating", l>> : l \in RatingLabels \cup {"Zero"}}
RatingFields == {None} \cup {Some(c) : c \in RatingClasses}
AvailTexts == {<<"x", "In stock">>, <<"Out of stock">>}
AvailFields == {None} \cup {Some(a) : a \in AvailTexts}
Authors == {"X"}

Block(kind, title, price, rating, avail, text, author) ==
    [kind |-> kind, title |-> title, price |-> price, rating |-> rating,
     avail |-> avail, text |-> text, author |-> author]

BookBlock(title, price, rating, avail) ==
    Block("book", title, price, rating, avail, None, None)

QuoteBlock(text, author) ==
    Block("quote", None, None, None, None, text, author)

BookBlocks ==
    {BookBlock(t, p, r, a) :
        t \in TitleFields, p \in PriceFields, r \in RatingFields, a \in AvailFields}

QuoteBlocks ==
    {QuoteBlock(t, a) : t \in {None, Some("q")}, a \in {None} \cup {Some(x) : x \in Authors}}

AllBlocks == BookBlocks \cup QuoteBlocks

\* The blocks that multi-block documents are built from.
GoodBookA == BookBlock(Some(Some("A")), Some(<<Pound, "1">>), Some(<<"star-rating", "Three">>),
                       Some(<<"In stock">>))
GoodBookB == BookBlock(Some(Some("B")), Some(<<"$", "2">>), Some(<<"star-rating">>), None)
BadPriceBook == BookBlock(Some(Some("B")), Some(<<"N/A">>), Some(<<"star-rating", "Five">>),
                          Some(<<"In stock">>))
NoTitleBook == BookBlock(None, Some(<<Pound, "2">>), Some(<<"star-rating", "One">>),
                         Some(<<"Out of stock">>))
NoRatingBook == BookBlock(Some(Some("A")), Some(<<Pound, "2">>), None, Some(<<"Out of stock">>))
GoodQuote == QuoteBlock(Some("q"), Some("X"))
BadQuote == QuoteBlock(Some("q"), None)

SampleBlocks ==
    {GoodBookA, GoodBookB, BadPriceBook, NoTitleBook, NoRatingBook, GoodQuote, BadQuote}

----------------------------------------------------------------------------
(* Field extractors: the body of each try block.  The result is Some(rec)  *)
(* when products.append is reached and None when an exception is raised.   *)

Record(title, price, rating, in_stock, category) ==
    [Title |-> title, Price |-> price, Rating |-> rating,
     In_Stock |-> in_stock, Category |-> category]

extract_book(book) ==
    IF book.title = None THEN None                      \* None.find / None.get
    ELSE IF book.price = None THEN None                 \* None.text
    ELSE IF parse_price(book.price[1]) = None THEN None \* ValueError
    ELSE IF book.rating = None THEN None                \* None.get
    ELSE
        LET title == IF book.title[1] = None THEN <<"N/A">> ELSE <<book.title[1][1]>>
            price == parse_price(book.price[1])[1]
            rating_class == book.rating[1]
            rating == IF Len(rating_class) > 1
                      THEN rating_map_get(rating_class[2]) ELSE 0
            in_stock == IF book.avail # None
                        THEN Contains(book.avail[1], <<"In stock">>) ELSE FALSE
        IN Some(Record(title, price, rating, in_stock, "Books"))

extract_quote(quote) ==
    IF quote.text = None THEN None                      \* None.text
    ELSE IF quote.author = None THEN None               \* None.text
    ELSE Some(Record(<<"Quote by ", quote.author[1]>>, 0, 5, TRUE, "Quotes"))

extract(layout, block) ==
    IF layout = "Books" THEN extract_book(block) ELSE extract_quote(block)

\* soup.find_all(...) for the layout: the matching nodes, in document order.
find_all(doc, layout) ==
    SelectSeq(doc, LAMBDA b : b.kind = (IF layout = "Books" THEN "book" ELSE "quote"))

----------------------------------------------------------------------------
(* The batch extraction inside scrape_website *)

no_truncate(blocks, max_items) == blocks

\* blocks[:max_items]
truncate(blocks, max_items) == Slice(blocks, max_items)

\* The for loop with its try / except-continue.  `skipped` counts the
\* executions of the except branch; the code keeps no such counter.
RECURSIVE extract_loop(_, _, _, _)
extract_loop(layout, blocks, products, skipped) ==
    IF blocks = <<>> THEN [products |-> products, skipped |-> skipped]
    ELSE LET r == extract(layout, Head(blocks))
         IN IF r = None
            THEN extract_loop(layout, Tail(blocks), products, skipped + 1)
            ELSE extract_loop(layout, Tail(blocks), Append(products, r[1]), skipped)

extract_then_truncate(doc, layout, max_items) ==
    LET r == extract_loop(layout, find_all(doc, layout), <<>>, 0)
    IN [products |-> Slice(r.products, max_items), skipped |-> r.skipped]

extract_batch(doc, layout, max_items) ==
    extract_loop(layout, truncate(find_all(doc, layout), max_items), <<>>, 0)

\* pd.DataFrame(products) is modelled as the sequence of its rows.
DataFrame(products) == products
EmptyDataFrame == <<>>

\* What requests.get + raise_for_status + BeautifulSoup deliver: a failure
\* (RequestException) or the parsed document, a sequence of blocks.
\* A failure carries the exception raised (timeout, connection error, or the
\* HTTPError of raise_for_status on a non-2xx status).
Causes == {"Timeout", "ConnectionError", "HTTPError"}
Failure(cause) == [ok |-> FALSE, doc |-> <<>>, cause |-> cause]
TransportFailure == Failure("ConnectionError")
Fetched(doc) == [ok |-> TRUE, doc |-> doc, cause |-> "none"]

\* The body of scrape_website.  `outcome` names the return statement taken,
\* `fetches` the number of requests.get calls made and `error` the cause
\* shown by st.error; they are observations of the run, the function
\* returns only `df`.
RunResult(df, outcome, fetches, skipped, error) ==
    [df |-> df, outcome |-> outcome, fetches |-> fetches, skipped |-> skipped,
     error |-> error]

scrape_website_retry(url, max_items, response) ==
    IF ~response.ok
    THEN RunResult(EmptyDataFrame, "fetch_failed", 2, 0, response.cause)
    ELSE IF route(url) = "Unsupported"
    THEN RunResult(EmptyDataFrame, "unsupported", 1, 0, "none")
    ELSE LET r == extract_batch(response.doc, route(url), max_items)
         IN RunResult(DataFrame(r.products), "ok", 1, r.skipped, "none")

scrape_website(url, max_items, response) ==
    IF ~response.ok
    THEN RunResult(EmptyDataFrame, "fetch_failed", 1, 0, response.cause)
    ELSE IF route(url) = "Unsupported"
    THEN RunResult(EmptyDataFrame, "unsupported", 1, 0, "none")
    ELSE LET r == extract_batch(response.doc, route(url), max_items)
         IN RunResult(DataFrame(r.products), "ok", 1, r.skipped, "none")

----------------------------------------------------------------------------
(* Inputs of the application *)

EmptyUrl == <<>>
BooksUrl == <<"books", ".toscrape.com">>
QuotesUrl == <<"quotes", ".toscrape.com">>
OtherUrl == <<"x">>

SampleUrls == {EmptyUrl, BooksUrl, QuotesUrl, OtherUrl}
ScrapeUrls == SampleUrls \ {EmptyUrl}

ItemCounts == 1..MaxItems

\* Pages the transport may deliver to the application.
Pages == {<<BadPriceBook, BadQuote>>, <<GoodBookB, GoodQuote, GoodBookA>>}
Responses == {TransportFailure} \cup {Fetched(d) : d \in Pages}

\* Documents the pipeline is applied to on its own.
Documents == SeqsUpTo(SampleBlocks, MaxBlocks) \cup {<<b>> : b \in AllBlocks}

----------------------------------------------------------------------------
(* st.cache_data(ttl=3600): memoisation of scrape_website on its arguments *)

Keys == ScrapeUrls \X ItemCounts

cache_key_url_only(url, max_items) == <<url, 1>>

cache_key(url, max_items) == <<url, max_items>>

cache_hit_no_expiry(c, key, t) == c[key] # None

\* An entry is served while its age is below the TTL.
cache_hit(c, key, t) == c[key] # None /\ t - c[key][1].created_at < TTL

----------------------------------------------------------------------------
(* State *)
(*   cache    the st.cache_data store of scrape_website: key -> None or    *)
(*            Some([value, created_at])                                    *)
(*   now      the clock, in seconds                                        *)
(*   session  st.session_state: each of 'df', 'url', 'scraped_at' is None  *)
(*            (key absent) or Some(value)                                  *)
(*   last     observations of the most recent click of the scrape button:  *)
(*            its inputs, the time, whether scrape_website's body ran or   *)
(*            the cache answered, and what the call returned               *)
(*   prev     the observations of the click before it                      *)
(*   nreq, nticks  counters that bound the exploration                     *)
(*   pc, inp, out  position, inputs and result when a function is applied  *)
(*            on its own                                                   *)

NoRequest ==
    [url |-> EmptyUrl, max_items |-> 0, at |-> 0, clicked |-> FALSE, ran |-> FALSE,
     fetches |-> 0, outcome |-> "none", df |-> EmptyDataFrame, skipped |-> 0]

NoInput == [url |-> EmptyUrl, max_items |-> 0, response |-> TransportFailure]

AppIdle ==
    /\ cache = [k \in Keys |-> None]
    /\ now = 0
    /\ session = [df |-> None, url |-> None, scraped_at |-> None]
    /\ last = NoRequest
    /\ prev = NoRequest
    /\ nreq = 0
    /\ nticks = 0

appVars == <<cache, now, session, last, prev, nreq, nticks>>

Init ==
    /\ AppIdle
    /\ pc = "app"
    /\ inp = NoInput
    /\ out = <<>>

----------------------------------------------------------------------------
(* The scrape button handler, lines 163-178, with the cached call *)

store_result_unguarded(s, df, url, t) ==
    [df |-> Some(df), url |-> Some(url), scraped_at |-> Some(t)]

store_result_or_clear(s, df, url, t) ==
    IF df # EmptyDataFrame
    THEN [df |-> Some(df), url |-> Some(url), scraped_at |-> Some(t)]
    ELSE [df |-> None, url |-> None, scraped_at |-> None]

\* `if not df.empty:` stores the three session keys, else nothing is stored.
store_result(s, df, url, t) ==
    IF df # EmptyDataFrame
    THEN [df |-> Some(df), url |-> Some(url), scraped_at |-> Some(t)]
    ELSE s

ScrapeButton(url, max_items, response) ==
    /\ pc = "app"
    /\ nreq < MaxRequests
    /\ nreq' = nreq + 1
    /\ prev' = last
    /\ IF url = EmptyUrl
       THEN \* st.error("Please enter a URL")
            /\ last' = [NoRequest EXCEPT !.clicked = TRUE, !.max_items = max_items,
                                         !.at = now, !.outcome = "no_url"]
            /\ UNCHANGED <<cache, session>>
       ELSE LET key == cache_key(url, max_items) IN
            IF cache_hit(cache, key, now)
            THEN LET df == cache[key][1].value IN
                 /\ last' = [url |-> url, max_items |-> max_items, at |-> now, clicked |-> TRUE,
                             ran |-> FALSE, fetches |-> 0, outcome |-> "cached",
                             df |-> df, skipped |-> 0]
                 /\ session' = store_result(session, df, url, now)
                 /\ UNCHANGED cache
            ELSE LET r == scrape_website(url, max_items, response) IN
                 /\ cache' = [cache EXCEPT ![key] = Some([value |-> r.df, created_at |-> now])]
                 /\ last' = [url |-> url, max_items |-> max_items, at |-> now, clicked |-> TRUE,
                             ran |-> TRUE, fetches |-> r.fetches, outcome |-> r.outcome,
                             df |-> r.df, skipped |-> r.skipped]
                 /\ session' = store_result(session, r.df, url, now)
    /\ UNCHANGED <<now, nticks, pc, inp, out>>

Scrape ==
    \E url \in SampleUrls, max_items \in ItemCounts, response \in Responses :
        ScrapeButton(url, max_items, response)

\* Time passes between two interactions, half a TTL at a time.
TickStep == TTL \div 2

Tick ==
    /\ pc = "app"
    /\ nticks < MaxTicks
    /\ now' = now + TickStep
    /\ nticks' = nticks + 1
    /\ UNCHANGED <<cache, session, last, prev, nreq, pc, inp, out>>

Next == Scrape \/ Tick

Spec == Init /\ [][Next]_vars

----------------------------------------------------------------------------
(* scrape_website applied on its own to every input of the bounded sets *)

PipeInit ==
    /\ AppIdle
    /\ pc = "call"
    /\ inp \in [url : ScrapeUrls, max_items : ItemCounts,
                response : {Failure(c) : c \in Causes} \cup {Fetched(d) : d \in Documents}]
    /\ out = <<>>

RunPipeline ==
    /\ pc = "call"
    /\ out' = scrape_website(inp.url, inp.max_items, inp.response)
    /\ pc' = "returned"
    /\ UNCHANGED <<appVars, inp>>

PipeNext == RunPipeline

PipeSpec == PipeInit /\ [][PipeNext]_vars

----------------------------------------------------------------------------
(* The routing chain applied on its own, twice, to every URL string *)

RouteInit ==
    /\ AppIdle
    /\ pc = "route"
    /\ inp \in [url : UrlStrings, max_items : {0}, response : {TransportFailure}]
    /\ out = <<>>

RouteUrl ==
    /\ pc = "route"
    /\ Len(out) < 2
    /\ out' = Append(out, route(inp.url))
    /\ UNCHANGED <<appVars, pc, inp>>

RouteNext == RouteUrl

RouteSpec == RouteInit /\ [][RouteNext]_vars

----------------------------------------------------------------------------
(* The results section, lines 181-488, evaluated on the stored frame *)

\* `'df' in st.session_state and not st.session_state['df'].empty`
results_shown(s) == s.df # None /\ s.df[1] # EmptyDataFrame

\* df[name] as a sequence of values.
Column(df, name) == [i \in 1..Len(df) |-> df[i][name]]

RECURSIVE SeqSum(_)
SeqSum(s) == IF s = <<>> THEN 0 ELSE Head(s) + SeqSum(Tail(s))

Times(x, y) == [i \in 1..Len(x) |-> x[i] * y[i]]

\* Series.corr (Pearson).  The coefficient is num / sqrt(densq), with
\*   num   = n*Sxy - Sx*Sy
\*   densq = (n*Sxx - Sx^2) * (n*Syy - Sy^2)
\* and it is NaN (0/0) when either series has zero variance.
corr(x, y) ==
    LET n == Len(x)
        num == n * SeqSum(Times(x, y)) - SeqSum(x) * SeqSum(y)
        vx == n * SeqSum(Times(x, x)) - SeqSum(x) * SeqSum(x)
        vy == n * SeqSum(Times(y, y)) - SeqSum(y) * SeqSum(y)
    IN IF vx * vy = 0
       THEN [nan |-> TRUE, num |-> 0, densq |-> 0]
       ELSE [nan |-> FALSE, num |-> num, densq |-> vx * vy]

\* correlation = df['Price'].corr(df['Rating'])
correlation(df) == corr(Column(df, "Price"), Column(df, "Rating"))

\* `abs(correlation) > 0.5`; a comparison with NaN is False.
strong_correlation(c) == ~c.nan /\ 4 * c.num * c.num > c.densq

----------------------------------------------------------------------------
(* Properties *)

Min(a, b) == IF a < b THEN a ELSE b

\* The key of the most recent request, written out (not through cache_key).
LastKey == <<last.url, last.max_items>>
PrevKey == <<prev.url, prev.max_items>>

\* C1: a run on an identifier that matches no layout pattern reports the
\* unsupported-source outcome and performs zero transport fetches.
C1_UnsupportedWithoutFetch ==
    (last.ran /\ ~Contains(last.url, BooksPattern) /\ ~Contains(last.url, QuotesPattern))
        => (last.outcome = "unsupported" /\ last.fetches = 0)

\* C2: after a run for a key ends in a batch-level failure (transport
\* failure or unsupported source) no cache entry exists for that key.
C2_ErrorsNeverCached ==
    (last.ran /\ last.outcome \in {"fetch_failed", "unsupported"})
        => cache[LastKey] = None

\* C3: the record set returned by scrape_website has at most max_items
\* records, however many blocks the document has and whichever layout.
C3_AtMostMaxItems ==
    pc = "returned" => Len(out.df) <= inp.max_items

C3_Witness ==
    /\ pc = "returned"
    /\ out.outcome = "ok"
    /\ Len(find_all(inp.response.doc, route(inp.url))) > inp.max_items
    /\ Len(out.df) = inp.max_items

\* What the design counts as a well-formed block, stated on the block alone:
\* a Books block has a title and a price that is numeric once the currency
\* symbols are removed (rating and availability may be missing); a Quotes
\* block has its text and its author.
NumericPrice(text) ==
    /\ \E i \in 1..Len(text) : text[i] \in Digits
    /\ \A i \in 1..Len(text) : text[i] \in Digits \cup {Pound, "$"}

WellFormed(layout, b) ==
    IF layout = "Books"
    THEN /\ b.title # None /\ b.title[1] # None
         /\ b.price # None /\ NumericPrice(b.price[1])
    ELSE b.text # None /\ b.author # None

\* C4: a batch with exactly one malformed block among K valid ones, all
\* within the max_items bound, yields K records and skipped_count = 1 and is
\* not a failure.  (Stated for batches in which every title link that is
\* present carries its title attribute.)
C4_OneMalformedBlock ==
    LET layout == route(inp.url)
        blocks == find_all(inp.response.doc, layout)
        malformed == {i \in 1..Len(blocks) : ~WellFormed(layout, blocks[i])}
    IN (/\ pc = "returned" /\ inp.response.ok /\ layout # "Unsupported"
        /\ Len(blocks) <= inp.max_items
        /\ \A i \in 1..Len(blocks) : blocks[i].title # Some(None)
        /\ Cardinality(malformed) = 1)
       => (/\ out.outcome = "ok"
           /\ Len(out.df) = Len(blocks) - 1
           /\ out.skipped = 1)

\* A request step: the scrape button was clicked with a non-empty URL.
IsRequest == nreq' = nreq + 1 /\ last'.url # EmptyUrl
NextKey == <<last'.url, last'.max_items>>
Fresh(k) == cache[k] # None /\ cache[k][1].created_at + TTL > now

\* The second of two requests with one key, made less than a TTL after the
\* first one ran the pipeline, does not run it and returns the same frame.
C5_RoundTripInv ==
    (/\ prev.ran /\ last.clicked /\ LastKey = PrevKey
     /\ last.at - prev.at < TTL)
        => (~last.ran /\ last.fetches = 0 /\ last.df = prev.df)

\* A request whose exact key has no entry runs the pipeline, whatever other
\* keys hold, and touches no entry but its own.
C5_NoSharingStep ==
    IsRequest =>
        /\ cache[NextKey] = None => last'.ran
        /\ \A k \in Keys \ {NextKey} : cache'[k] = cache[k]

\* C5: two requests with the identical key within the TTL window run the
\* pipeline once and the second returns the record set of the first;
\* requests that differ in identifier or max_items share no entry.
C5_CacheRoundTrip == []C5_RoundTripInv /\ [][C5_NoSharingStep]_vars

C5_Witness ==
    /\ prev.ran /\ last.clicked /\ LastKey = PrevKey
    /\ last.at > prev.at /\ last.at - prev.at < TTL
    /\ ~last.ran /\ last.df = prev.df /\ last.df # EmptyDataFrame

C6_ExpiryStep ==
    IsRequest =>
        /\ ~last'.ran => (Fresh(NextKey) /\ last'.df = cache[NextKey][1].value)
        /\ (cache[NextKey] # None /\ ~Fresh(NextKey)) =>
              /\ last'.ran /\ last'.fetches = 1
              /\ cache'[NextKey] = Some([value |-> last'.df, created_at |-> now])

\* C6: an entry is served only while created_at + TTL > now; once the TTL
\* has elapsed the next request with the key runs the pipeline again and
\* replaces the entry, and an expired value is never returned.
C6_ExpiredEntryReplaced == [][C6_ExpiryStep]_vars

C6_Witness ==
    /\ prev.ran /\ last.ran /\ LastKey = PrevKey
    /\ last.at - prev.at = TTL
    /\ last.df # prev.df
    /\ cache[LastKey] = Some([value |-> last.df, created_at |-> last.at])

\* The outcome of a run as the design names it.
Kind(r) ==
    IF r.outcome = "ok" /\ r.df = EmptyDataFrame THEN "empty_result" ELSE r.outcome

\* C7: an empty record set from a supported source, the unsupported-source
\* outcome and the fetch-failed outcome never give the caller the same
\* returned value.
C7_OutcomesDistinguishable ==
    (/\ prev.ran /\ last.ran
     /\ Kind(prev) \in {"empty_result", "unsupported", "fetch_failed"}
     /\ Kind(last) \in {"empty_result", "unsupported", "fetch_failed"}
     /\ Kind(prev) # Kind(last))
        => last.df # prev.df

\* Occurrence of a two-token host name in a URL, stated position by position.
HasHost(url, name) ==
    \E i \in 1..(Len(url) - 1) : url[i] = name /\ url[i + 1] = ".toscrape.com"

C9_TruncateThenExtract ==
    LET layout == route(inp.url)
        blocks == find_all(inp.response.doc, layout)
        m == Min(inp.max_items, Len(blocks))
        kept == {i \in 1..m : extract(layout, blocks[i]) # None}
        rank(i) == Cardinality({k \in kept : k <= i})
    IN (pc = "returned" /\ out.outcome = "ok")
       => (/\ Len(out.df) = Cardinality(kept)
           /\ \A i \in kept : out.df[rank(i)] = extract(layout, blocks[i])[1])

C9_Witness ==
    LET layout == route(inp.url)
        blocks == find_all(inp.response.doc, layout)
    IN /\ pc = "returned" /\ out.outcome = "ok"
       /\ Len(blocks) > inp.max_items
       /\ \E i \in 1..inp.max_items : extract(layout, blocks[i]) = None
       /\ \E i \in (inp.max_items + 1)..Len(blocks) : extract(layout, blocks[i]) # None
       /\ Len(out.df) >= 1

\* The rating the design assigns to a Books block: the number of a
\* recognised label, 0 for an unrecognised or absent one.
LabelNumber(l) == CHOOSE n \in 1..5 : <<"One", "Two", "Three", "Four", "Five">>[n] = l

ExpectedRating(b) ==
    IF b.rating # None /\ Len(b.rating[1]) >= 2 /\ b.rating[1][2] \in RatingLabels
    THEN LabelNumber(b.rating[1][2])
    ELSE 0

\* C10: in the Books extractor an unrecognised or absent rating label gives
\* rating 0 and the block still produces a record, a recognised label
\* One..Five gives 1..5, and every returned record has a rating in 0..5.
C10_RatingNeverFailsRecord ==
    LET blocks == find_all(inp.response.doc, "Books")
        m == Min(inp.max_items, Len(blocks))
    IN pc = "returned" =>
        /\ \A i \in 1..Len(out.df) : out.df[i].Rating \in 0..5
        /\ (/\ out.outcome = "ok" /\ route(inp.url) = "Books"
            /\ \A i \in 1..m : /\ WellFormed("Books", blocks[i]))
              => (/\ Len(out.df) = m
                  /\ \A i \in 1..m : out.df[i].Rating = ExpectedRating(blocks[i]))

\* C11: a block missing its title fails the record, so no record with an
\* absent or placeholder title is in the record set, whereas a block whose
\* availability element is missing still gives a record, with
\* availability false.
C11_TitleRequiredAvailabilityOptional ==
    LET blocks == find_all(inp.response.doc, "Books")
        m == Min(inp.max_items, Len(blocks))
    IN pc = "returned" =>
        /\ \A i \in 1..Len(out.df) :
              out.df[i].Title # <<>> /\ out.df[i].Title # <<"N/A">>
        /\ (/\ out.outcome = "ok" /\ route(inp.url) = "Books"
            /\ \A i \in 1..m : WellFormed("Books", blocks[i]) /\ blocks[i].rating # None)
              => (/\ Len(out.df) = m
                  /\ \A i \in 1..m : blocks[i].avail = None => ~out.df[i].In_Stock)

\* C12: over a stored record set in which the price or the rating is the
\* same in every record (any Quotes record set, a single record) the
\* price/rating correlation is exactly 0 and never NaN, so the insight
\* rule always compares a number in [-1, 1].
C12_CorrelationZeroOnConstantField ==
    results_shown(session) =>
        LET df == session.df[1]
            c == correlation(df)
            constant(name) == \A i, j \in 1..Len(df) : df[i][name] = df[j][name]
        IN /\ ~c.nan /\ c.num * c.num <= c.densq
           /\ (constant("Price") \/ constant("Rating")) => c.num = 0

\* C13: a run invokes the transport at most once; a transport failure
\* (timeout, non-2xx status, connection error) ends it with the
\* fetch-failed outcome carrying the cause, with no record extracted and no
\* second fetch.
C13_SingleFetchNoRetry ==
    pc = "returned" =>
        /\ out.fetches <= 1
        /\ ~inp.response.ok =>
              /\ out.outcome = "fetch_failed"
              /\ out.error = inp.response.cause
              /\ out.fetches = 1
              /\ out.df = EmptyDataFrame /\ out.skipped = 0

C13_Witness ==
    /\ pc = "returned"
    /\ inp.response = Failure("HTTPError")
    /\ route(inp.url) = "Books"
    /\ out.outcome = "fetch_failed" /\ out.error = "HTTPError" /\ out.fetches = 1

\* C14: after any sequence of scrape requests the stored record set, when
\* present, is non-empty, and the stored url and scraped_at are present
\* exactly when it is; so the results section, with its divisions by the
\* record count, is evaluated only on a non-empty record set.
C14_SessionStoredTogether ==
    /\ session.df # None => Len(session.df[1]) > 0
    /\ (session.url # None) <=> (session.df # None)
    /\ (session.scraped_at # None) <=> (session.df # None)
    /\ results_shown(session) <=> session.df # None

C14_Witness ==
    /\ session.df # None /\ session.url # None /\ session.scraped_at # None
    /\ last.clicked /\ last.url # EmptyUrl /\ last.df = EmptyDataFrame
    /\ prev.clicked /\ prev.df # EmptyDataFrame

C15_FrameStep ==
    (/\ nreq' = nreq + 1
     /\ last'.url = EmptyUrl \/ last'.df = EmptyDataFrame)
        => session' = session

\* C15: a scrape request whose result is empty (unsupported source, fetch
\* failure, zero extracted records) or whose URL is empty leaves the stored
\* df, url and scraped_at unchanged.
C15_FailedRequestKeepsSession == [][C15_FrameStep]_vars

C15_Witness ==
    /\ prev.clicked /\ prev.df # EmptyDataFrame
    /\ last.clicked /\ last.outcome \in {"unsupported", "fetch_failed", "no_url"}
    /\ last.at > prev.at
    /\ session = [df |-> Some(prev.df), url |-> Some(prev.url), scraped_at |-> Some(prev.at)]

====
